---- MODULE Spec2Model ----
(***************************************************************************)
(* A model of kv.rs: the log-structured engine (src/src/kvs_engine.rs),    *)
(* its background compactor, and the shared-queue thread pool              *)
(* (src/src/thread_pool/shared_queue_threadpool.rs).                       *)
(*                                                                         *)
(* A log file is a sequence of whole records.  A record's byte length is   *)
(* the length of its serde_json encoding plus the newline, so offsets in   *)
(* the index are byte offsets, as in the code.  Values are opaque strings: *)
(* the model keeps a value's name and its byte length.                     *)
(***************************************************************************)
EXTENDS Integers, Sequences, FiniteSets, TLC

(***************************************************************************)
(* Bounds and inputs                                                       *)
(***************************************************************************)
\* the number of records client operations may append in one behaviour
MaxAppends == 4

\* the same number in the behaviours with handle drops, with a poisoned lock
\* and with failing writes, whose cases need fewer records
MaxSideAppends == 3

\* the pool's size and the number of jobs submitted in one behaviour
NWorkers == 2
MaxJobs == 3
MaxLogRecords == 3

Workers == 1..NWorkers
Jobs == 1..MaxJobs
\* no job (Option::None), and the Mutex with no guard alive
NoJob == 0
Unlocked == 0

Clients == {"c1", "c2"}
Keys == {"a", "b"}
Vals == {"v1", "v2"}
NoVal == "none"

\* byte length of a key / of a value (the strings the clients pass in)
KeyLen(k) == 1
ValLen(v) == IF v = "v1" THEN 524257 ELSE 1048545

(***************************************************************************)
(* Program constants                                                       *)
(***************************************************************************)
LOG_FILE == "data.log"
COMPACTION_LOG_FILE == "data.log.tmp"
MAX_FILE_BYTES == 1024 * 1024

Names == {LOG_FILE, COMPACTION_LOG_FILE}
\* the names a directory entry can have: the two above and foreign ones
EntryNames == Names \cup {"foo.txt", "bar.txt"}
Inodes == {"i1", "i2"}
NoInode == "none"
EmptyMap == [x \in {} |-> 0]
NoStore == [data |-> EmptyMap, log_file |-> NoInode, current_offset |-> 0]
NotRun == <<"none", "">>

VARIABLES
  files,        \* inode -> content: the sequence of records written to it
  dir,          \* the storage directory: file name -> inode, or NoInode
  store,        \* struct Store: data (the index), log_file, current_offset
  tmp_store,    \* the compaction pass's temporary Store, or NoStore
  keys,         \* the pass's `keys` vector: the keys still to be copied
  lock,         \* the RwLock around Store: "free" or the thread holding it
  pc,           \* each client thread: "idle", "locked" or "dropped"
  cpc,          \* the compactor thread's position
  terminate,    \* the AtomicBool shared by the handles and the compactor
  up,           \* whether an engine is open in the process
  last,         \* the most recently completed call, what it returned, and
                \* whether a pass had rewritten the log before it
  live,         \* history: key -> value of its latest successful set not
                \* followed by a successful remove, or NoVal
  everSet,      \* history: key -> the values ever passed to a successful set
  appended,     \* history: how many records clients have appended
  compacted,    \* history: a pass has rewritten the log of this engine
  pass_res,     \* the compactor loop's `res`: what the pass of this
                \* iteration returned, or NotRun
  cursor        \* the file position of the handle store.log_file

engineVars == <<files, dir, store, tmp_store, keys, lock, pc, cpc, terminate,
                up, last, live, everSet, appended, compacted, pass_res,
                cursor>>

\* SharedQueueThreadPool
VARIABLES
  queue,        \* the VecDeque of jobs behind the Mutex
  qlock,        \* the Mutex: Unlocked or the worker whose guard is alive
  poisoned,     \* the Mutex's poison flag
  pterm,        \* the pool's terminate flag
  wpc,          \* each worker thread's position in queue_polling
  wjob,         \* the job a worker popped and is running, or NoJob
  mpc,          \* the thread that owns the pool
  joined,       \* how many workers Drop has joined so far
  spawned,      \* history: how many jobs spawn has enqueued
  started,      \* history: the jobs in the order they began to run
  late,         \* history: the jobs that began to run after terminate was set
  outcome       \* history: job -> "pending", "done" or "panicked"

poolVars == <<queue, qlock, poisoned, pterm, wpc, wjob, mpc, joined, spawned,
              started, late, outcome>>

VARIABLES
  path,         \* what is at the path given to open: its kind and its entries
  opened        \* history: the last Store::open, its inputs and its result

openVars == <<path, opened>>

VARIABLES
  npc,          \* a connection: "idle", "sent", "decoded", "served", "done"
  request,      \* the ReqProto the client wrote
  raw,          \* the bytes read_until leaves in `raw`: how much of the
                \* encoded request, and whether the newline came before EOF
  decoded,      \* the server's deserialize_request result
  engine_res,   \* the result of the engine call process_request made
  response,     \* what the server wrote to the stream before closing it
  exit          \* the client's exit code and what it printed

netVars == <<npc, request, raw, decoded, engine_res, response, exit>>

vars == <<engineVars, poolVars, openVars, netVars>>

\* what an engine step, a pool step, an open step and a network step leave
\* alone
offEngine == <<poolVars, openVars, netVars>>
offPool == <<engineVars, openVars, netVars>>
offOpen == <<engineVars, poolVars, netVars>>
offNet == <<engineVars, poolVars, openVars>>

(***************************************************************************)
(* LogEntry and its encoding                                               *)
(***************************************************************************)
SetEntry(k, v) == [tag |-> "Set", key |-> k, value |-> v]
RemoveEntry(k) == [tag |-> "Remove", key |-> k, value |-> NoVal]
Garbage == [tag |-> "Garbage", key |-> "", value |-> NoVal]

\* bytes of serde_json::to_string(&entry) plus the "\n" pushed after it:
\*   {"Set":{"key":"<k>","value":"<v>"}}   is 29 + |k| + |v| bytes
\*   {"Remove":"<k>"}                      is 13 + |k| bytes
entry_str_len(e) ==
  IF e.tag = "Set" THEN 29 + KeyLen(e.key) + ValLen(e.value) + 1
  ELSE 13 + KeyLen(e.key) + 1

RECURSIVE file_len(_)
file_len(f) == IF f = <<>> THEN 0 ELSE entry_str_len(Head(f)) + file_len(Tail(f))

\* the byte offset at which the i-th record of f starts
offset_of(f, i) == file_len(SubSeq(f, 1, i - 1))

\* seek(Start(off)); read_line; serde_json::from_str: the record that starts
\* at off, or Garbage when off is inside a record or at/after the end
read_entry(f, off) ==
  IF \E i \in 1..Len(f) : offset_of(f, i) = off
  THEN f[CHOOSE i \in 1..Len(f) : offset_of(f, i) = off]
  ELSE Garbage

(***************************************************************************)
(* Results                                                                 *)
(***************************************************************************)
Ok(v) == <<"Ok", v>>
Err(e) == <<"Err", e>>
IsOk(r) == r[1] = "Ok"

(***************************************************************************)
(* HashMap<String, u64>                                                    *)
(***************************************************************************)
Insert(m, k, off) == [x \in DOMAIN m \cup {k} |-> IF x = k THEN off ELSE m[x]]
Delete(m, k) == [x \in DOMAIN m \ {k} |-> m[x]]

(***************************************************************************)
(* impl Store                                                              *)
(***************************************************************************)
\* `BufReader::new(&self.log_file)`: the reader fills a buffer of this many
\* bytes with each read of the file
BufCapacity == 8192

\* seek(SeekFrom::Start(off)) and read_line through the BufReader: the
\* position of the handle afterwards.  The reader reads whole buffers until
\* one holds the newline or the file ends; at or past the end nothing is read
read_line_end(f, off) ==
  IF off >= file_len(f) THEN off
  ELSE LET ends == {offset_of(f, i + 1) : i \in 1..Len(f)}
           b == CHOOSE e \in ends : e > off /\ \A x \in ends : x > off => e <= x
           n == ((b - off + BufCapacity - 1) \div BufCapacity) * BufCapacity
       IN IF off + n > file_len(f) THEN file_len(f) ELSE off + n

\* get_internal takes `&mut self`: where it leaves the handle that was at pos
position_after_get(st, fs, k, pos) ==
  IF k \notin DOMAIN st.data THEN pos
  ELSE read_line_end(fs[st.log_file], st.data[k])

get_internal(st, fs, k) ==
  IF k \notin DOMAIN st.data THEN Ok(NoVal)
  ELSE LET e == read_entry(fs[st.log_file], st.data[k]) IN
       IF e.tag = "Garbage" THEN Err("SerdeJsonError")
       ELSE IF e.tag = "Set" THEN Ok(e.value)
       ELSE Err("KeyNotFound")

\* what log_file.write returns: Ok with the record written, or an I/O error
\* with nothing written
WriteResults == {"Ok", "IoErr"}

\* set_internal that updates the map and the offset before it writes
set_internal_inserts_first(st, fs, k, v, wr) ==
  LET e == SetEntry(k, v)
      st2 == [st EXCEPT !.data = Insert(st.data, k, st.current_offset),
                        !.current_offset = @ + entry_str_len(e)]
  IN IF wr = "IoErr" THEN [res |-> Err("IoErr"), st |-> st2, fs |-> fs]
     ELSE [res |-> Ok(NoVal), st |-> st2,
           fs |-> [fs EXCEPT ![st.log_file] = Append(@, e)]]

\* the file is opened with append(true): every write lands at its end; wr is
\* what log_file.write returns, and `?` leaves before the insert on an error
set_internal(st, fs, k, v, wr) ==
  LET e == SetEntry(k, v) IN
  IF wr = "IoErr" THEN [res |-> Err("IoErr"), st |-> st, fs |-> fs]
  ELSE [res |-> Ok(NoVal),
        st  |-> [st EXCEPT !.data = Insert(st.data, k, st.current_offset),
                           !.current_offset = @ + entry_str_len(e)],
        fs  |-> [fs EXCEPT ![st.log_file] = Append(@, e)]]

\* remove_internal that appends the Remove record and leaves the key in the map
remove_internal_keeps_key(st, fs, k, wr) ==
  IF k \notin DOMAIN st.data
  THEN [res |-> Err("KeyNotFound"), st |-> st, fs |-> fs]
  ELSE IF wr = "IoErr" THEN [res |-> Err("IoErr"), st |-> st, fs |-> fs]
  ELSE LET e == RemoveEntry(k) IN
       [res |-> Ok(NoVal),
        st  |-> [st EXCEPT !.current_offset = @ + entry_str_len(e)],
        fs  |-> [fs EXCEPT ![st.log_file] = Append(@, e)]]

\* remove_internal that appends the Remove record before it looks the key up
remove_internal_writes_first(st, fs, k, wr) ==
  LET e == RemoveEntry(k) IN
  IF wr = "IoErr" THEN [res |-> Err("IoErr"), st |-> st, fs |-> fs] ELSE
  [res |-> IF k \in DOMAIN st.data THEN Ok(NoVal) ELSE Err("KeyNotFound"),
   st  |-> [st EXCEPT !.data = Delete(st.data, k),
                      !.current_offset = @ + entry_str_len(e)],
   fs  |-> [fs EXCEPT ![st.log_file] = Append(@, e)]]

\* `self.data.remove(&k)` comes first: when log_file.write then fails, `?`
\* leaves with the key already gone from the map and nothing appended
remove_internal(st, fs, k, wr) ==
  IF k \notin DOMAIN st.data
  THEN [res |-> Err("KeyNotFound"), st |-> st, fs |-> fs]
  ELSE IF wr = "IoErr"
  THEN [res |-> Err("IoErr"),
        st  |-> [st EXCEPT !.data = Delete(st.data, k)],
        fs  |-> fs]
  ELSE LET e == RemoveEntry(k) IN
       [res |-> Ok(NoVal),
        st  |-> [st EXCEPT !.data = Delete(st.data, k),
                           !.current_offset = @ + entry_str_len(e)],
        fs  |-> [fs EXCEPT ![st.log_file] = Append(@, e)]]

\* a replay that counts the bytes of each line without its "\n"
RECURSIVE load_data_skips_newline(_, _)
load_data_skips_newline(st, f) ==
  IF f = <<>> THEN st
  ELSE LET e == Head(f)
           d == IF e.tag = "Set" THEN Insert(st.data, e.key, st.current_offset)
                ELSE Delete(st.data, e.key)
       IN load_data_skips_newline(
            [st EXCEPT !.data = d, !.current_offset = @ + entry_str_len(e) - 1],
            Tail(f))

\* replay of the records of f from the first one, starting from Store st
RECURSIVE load_data(_, _)
load_data(st, f) ==
  IF f = <<>> THEN st
  ELSE LET e == Head(f)
           d == IF e.tag = "Set" THEN Insert(st.data, e.key, st.current_offset)
                ELSE Delete(st.data, e.key)
       IN load_data([st EXCEPT !.data = d,
                               !.current_offset = @ + entry_str_len(e)],
                    Tail(f))

\* what is at a path: nothing, a regular file, or a directory and its entries
Absent == [kind |-> "absent", entries |-> {}]
RegularFile == [kind |-> "file", entries |-> {}]
Directory(entries) == [kind |-> "dir", entries |-> entries]

\* the engine's directory: it exists in every state (the first open made it)
PathOf(d) == Directory({n \in Names : d[n] # NoInode})

ensure_path_counts_from_two(p, file_name) ==
  IF p.kind = "absent" THEN Ok(file_name)
  ELSE IF p.kind = "file" THEN Err("DirPathExpected")
  ELSE IF Cardinality(p.entries) > 2 THEN Err("FileMismatchInPath")
  ELSE IF Cardinality(p.entries) = 1 /\ p.entries # {LOG_FILE}
       THEN Err("UnexpectedLogFile")
  ELSE Ok(file_name)

ensure_path_any_single_entry(p, file_name) ==
  IF p.kind = "absent" THEN Ok(file_name)
  ELSE IF p.kind = "file" THEN Err("DirPathExpected")
  ELSE IF Cardinality(p.entries) > 1 THEN Err("FileMismatchInPath")
  ELSE Ok(file_name)

\* KvError::FileMismatchInPath is the error the documentation calls
\* UnexpectedFilesInPath
ensure_path(p, file_name) ==
  IF p.kind = "absent" THEN Ok(file_name)
  ELSE IF p.kind = "file" THEN Err("DirPathExpected")
  ELSE IF Cardinality(p.entries) > 1 THEN Err("FileMismatchInPath")
  ELSE IF Cardinality(p.entries) = 1 /\ p.entries # {LOG_FILE}
       THEN Err("UnexpectedLogFile")
  ELSE Ok(file_name)

\* read + append + create: the inode the name has, or a fresh empty one
FreeInode(d, st) ==
  CHOOSE i \in Inodes : (\A n \in Names : d[n] # i) /\ st.log_file # i
open_file(d, st, name) == IF d[name] # NoInode THEN d[name] ELSE FreeInode(d, st)

open_internal(fs, ino) ==
  load_data([data |-> EmptyMap, log_file |-> ino, current_offset |-> 0], fs[ino])

(***************************************************************************)
(* The state after KvStore::open on a fresh directory, with the handle     *)
(* cloned into every client thread and the compactor thread spawned        *)
(***************************************************************************)
EngineInit ==
  /\ files = [i \in Inodes |-> <<>>]
  /\ dir = [n \in Names |-> IF n = LOG_FILE THEN "i1" ELSE NoInode]
  /\ store = open_internal([i \in Inodes |-> <<>>], "i1")
  /\ tmp_store = NoStore
  /\ keys = <<>>
  /\ lock = "free"
  /\ pc = [c \in Clients |-> "idle"]
  /\ cpc = "loop"
  /\ terminate = FALSE
  /\ up = TRUE
  /\ last = [op |-> "open", key |-> "", res |-> Ok(NoVal), compacted |-> FALSE]
  /\ live = [k \in Keys |-> NoVal]
  /\ everSet = [k \in Keys |-> {}]
  /\ appended = 0
  /\ compacted = FALSE
  /\ pass_res = NotRun
  /\ cursor = 0

(***************************************************************************)
(* RwLock<Store>                                                           *)
(***************************************************************************)
\* a lock that hands out a guard whatever guards exist (the shared mode)
write_available_shared(l) == TRUE

\* a lock that forgets that a holder panicked
write_available_ignores_poison(l) == l \in {"free", "poisoned"}

\* store.write() returns Ok(guard) only while no other guard exists and no
\* holder has panicked
write_available(l) == l = "free"

\* KvStore::set / get / remove: `match self.store.write()`, the Ok arm
AcquireWrite(c) ==
  /\ UNCHANGED offEngine
  /\ UNCHANGED cursor
  /\ up
  /\ pc[c] = "idle"
  /\ write_available(lock)
  /\ lock' = c
  /\ pc' = [pc EXCEPT ![c] = "locked"]
  /\ UNCHANGED <<files, dir, store, tmp_store, keys, cpc, terminate, up, last,
                 live, everSet, appended, compacted,
                 pass_res>>

\* the guard is dropped when the call returns
Return(c, op, k, r) ==
  /\ lock' = "free"
  /\ pc' = [pc EXCEPT ![c] = "idle"]
  /\ last' = [op |-> op, key |-> k, res |-> r, compacted |-> compacted]

(***************************************************************************)
(* impl KvsEngine for KvStore                                              *)
(***************************************************************************)
\* a set on a handle opened without append(true): the record is written at
\* the position of the handle, over what the file holds from there on
Set_writes_at_cursor(c, k, v) ==
  /\ UNCHANGED offEngine
  /\ pc[c] = "locked"
  /\ appended < MaxAppends
  /\ LET r == set_internal(store, files, k, v, "Ok")
         f == files[store.log_file]
         kept == {i \in 1..Len(f) : offset_of(f, i + 1) <= cursor}
         g == SubSeq(f, 1, Cardinality(kept)) \o <<SetEntry(k, v)>>
     IN
     /\ store' = r.st
     /\ files' = [files EXCEPT ![store.log_file] = g]
     /\ Return(c, "set", k, r.res)
     /\ cursor' = file_len(g)
  /\ live' = [live EXCEPT ![k] = v]
  /\ everSet' = [everSet EXCEPT ![k] = @ \cup {v}]
  /\ appended' = appended + 1
  /\ UNCHANGED <<dir, tmp_store, keys, cpc, terminate, up, compacted,
                 pass_res>>

Set(c, k, v) ==
  /\ UNCHANGED offEngine
  /\ pc[c] = "locked"
  /\ appended < MaxAppends
  /\ LET r == set_internal(store, files, k, v, "Ok") IN
     /\ store' = r.st
     /\ files' = r.fs
     /\ Return(c, "set", k, r.res)
     /\ cursor' = file_len(r.fs[r.st.log_file])
  /\ live' = [live EXCEPT ![k] = v]
  /\ everSet' = [everSet EXCEPT ![k] = @ \cup {v}]
  /\ appended' = appended + 1
  /\ UNCHANGED <<dir, tmp_store, keys, cpc, terminate, up, compacted,
                 pass_res>>

Get(c, k) ==
  /\ UNCHANGED offEngine
  /\ pc[c] = "locked"
  /\ Return(c, "get", k, get_internal(store, files, k))
  /\ cursor' = position_after_get(store, files, k, cursor)
  /\ UNCHANGED <<files, dir, store, tmp_store, keys, cpc, terminate, up, live,
                 everSet, appended, compacted,
                 pass_res>>

Remove(c, k) ==
  /\ UNCHANGED offEngine
  /\ pc[c] = "locked"
  /\ LET r == remove_internal(store, files, k, "Ok") IN
     /\ IsOk(r.res) => appended < MaxAppends
     /\ store' = r.st
     /\ files' = r.fs
     /\ Return(c, "remove", k, r.res)
     /\ cursor' = IF IsOk(r.res) THEN file_len(r.fs[r.st.log_file]) ELSE cursor
     /\ live' = IF IsOk(r.res) THEN [live EXCEPT ![k] = NoVal] ELSE live
     /\ appended' = IF IsOk(r.res) THEN appended + 1 ELSE appended
  /\ UNCHANGED <<dir, tmp_store, keys, cpc, terminate, up, everSet, compacted,
                 pass_res>>

\* KvStore derives Clone and has no Drop of its own: dropping a handle only
\* drops its three Arcs
DropHandle(c) ==
  /\ UNCHANGED offEngine
  /\ UNCHANGED cursor
  /\ pc[c] = "idle"
  /\ pc' = [pc EXCEPT ![c] = "dropped"]
  /\ UNCHANGED <<files, dir, store, tmp_store, keys, lock, cpc, terminate, up,
                 last, live, everSet, appended, compacted,
                 pass_res>>

(***************************************************************************)
(* The compactor thread: the loop of KvStore::open                         *)
(***************************************************************************)
\* a loop that ends when the pass of the last iteration returned an error
CompactorLoop_stops_on_error ==
  /\ UNCHANGED offEngine
  /\ UNCHANGED cursor
  /\ up
  /\ cpc = "loop"
  /\ cpc' = IF terminate \/ pass_res[1] = "Err" THEN "exited" ELSE "sleep"
  /\ pass_res' = NotRun
  /\ UNCHANGED <<files, dir, store, tmp_store, keys, lock, pc, terminate, up,
                 last, live, everSet, appended, compacted>>

\* `if terminate_cp.load(..) { break; }`; `res` of the iteration before is
\* dropped unread
CompactorLoop ==
  /\ UNCHANGED offEngine
  /\ UNCHANGED cursor
  /\ up
  /\ cpc = "loop"
  /\ cpc' = IF terminate THEN "exited" ELSE "sleep"
  /\ pass_res' = NotRun
  /\ UNCHANGED <<files, dir, store, tmp_store, keys, lock, pc, terminate, up,
                 last, live, everSet, appended, compacted>>

\* the sleep ends; check_and_do_compaction waits in store.write()
CompactionLock ==
  /\ UNCHANGED offEngine
  /\ UNCHANGED cursor
  /\ up
  /\ cpc = "sleep"
  /\ IF lock = "poisoned"
     THEN \* Err(_) => Err(KvError::LockError): the pass returns
          /\ cpc' = "loop"
          /\ pass_res' = Err("LockError")
          /\ UNCHANGED lock
     ELSE /\ write_available(lock)
          /\ lock' = "compactor"
          /\ cpc' = "size"
          /\ UNCHANGED pass_res
  /\ UNCHANGED <<files, dir, store, tmp_store, keys, pc, terminate, up, last,
                 live, everSet, appended, compacted>>

\* a return from check_and_do_compaction drops the guard and tmp_store
PassReturn(r) ==
  /\ pass_res' = r
  /\ lock' = "free"
  /\ cpc' = "loop"
  /\ tmp_store' = NoStore
  /\ keys' = <<>>

CompactionCheckSize ==
  /\ UNCHANGED offEngine
  /\ UNCHANGED cursor
  /\ cpc = "size"
  /\ IF file_len(files[store.log_file]) < MAX_FILE_BYTES
     THEN PassReturn(Ok(NoVal))
     ELSE /\ cpc' = "open"
          /\ UNCHANGED <<tmp_store, keys, lock, pass_res>>
  /\ UNCHANGED <<files, dir, store, pc, terminate, up, last, live, everSet,
                 appended, compacted>>

Perms(S) == {s \in [1..Cardinality(S) -> S] : \A i, j \in DOMAIN s : s[i] = s[j] => i = j}

\* Store::open(&guard.dir_path, COMPACTION_LOG_FILE), then the keys of the
\* index in the HashMap's iteration order
CompactionOpenTmp ==
  /\ UNCHANGED offEngine
  /\ UNCHANGED cursor
  /\ cpc = "open"
  /\ IF IsOk(ensure_path(PathOf(dir), COMPACTION_LOG_FILE))
     THEN LET ino == open_file(dir, store, COMPACTION_LOG_FILE) IN
          /\ dir' = [dir EXCEPT ![COMPACTION_LOG_FILE] = ino]
          /\ tmp_store' = open_internal(files, ino)
          /\ keys' \in Perms(DOMAIN store.data)
          /\ cpc' = "copy"
          /\ UNCHANGED <<lock, pass_res>>
     ELSE /\ PassReturn(ensure_path(PathOf(dir), COMPACTION_LOG_FILE))
          /\ UNCHANGED dir
  /\ UNCHANGED <<files, store, pc, terminate, up, last, live, everSet, appended, compacted>>

CompactionCopy ==
  /\ UNCHANGED offEngine
  /\ cpc = "copy"
  /\ keys # <<>>
  /\ cursor' = position_after_get(store, files, Head(keys), cursor)
  /\ LET r == get_internal(store, files, Head(keys)) IN
     IF IsOk(r)
     THEN LET w == set_internal(tmp_store, files, Head(keys), r[2], "Ok") IN
          /\ tmp_store' = w.st
          /\ files' = w.fs
          /\ keys' = Tail(keys)
          /\ UNCHANGED <<lock, cpc, pass_res>>
     ELSE /\ PassReturn(r)
          /\ UNCHANGED files
  /\ UNCHANGED <<dir, store, pc, terminate, up, last, live, everSet, appended, compacted>>

\* fs::rename(data.log.tmp, data.log)
CompactionRename ==
  /\ UNCHANGED offEngine
  /\ UNCHANGED cursor
  /\ cpc = "copy"
  /\ keys = <<>>
  /\ dir' = [dir EXCEPT ![LOG_FILE] = dir[COMPACTION_LOG_FILE],
                        ![COMPACTION_LOG_FILE] = NoInode]
  /\ cpc' = "swap"
  /\ UNCHANGED <<files, store, tmp_store, keys, lock, pc, terminate, up, last,
                 live, everSet, appended, compacted,
                 pass_res>>

\* guard.log_file = tmp_store.log_file.try_clone()?; drop(tmp_store); Ok(())
compaction_swap(st, tmp) == [st EXCEPT !.log_file = tmp.log_file]

CompactionSwap ==
  /\ UNCHANGED offEngine
  /\ cpc = "swap"
  /\ store' = compaction_swap(store, tmp_store)
  /\ files' = [files EXCEPT ![store.log_file] = <<>>]
  /\ cursor' = file_len(files[tmp_store.log_file])
  /\ PassReturn(Ok(NoVal))
  /\ compacted' = TRUE
  /\ UNCHANGED <<dir, pc, terminate, up, last, live, everSet, appended>>

(***************************************************************************)
(* The process exits between calls and a new one opens the directory       *)
(***************************************************************************)
Reopen ==
  /\ UNCHANGED offEngine
  /\ up
  /\ lock = "free"
  /\ LET p == ensure_path(PathOf(dir), LOG_FILE) IN
     IF IsOk(p)
     THEN /\ store' = open_internal(files, open_file(dir, store, LOG_FILE))
          /\ cursor' = file_len(files[open_file(dir, store, LOG_FILE)])
          /\ up' = TRUE
          /\ last' = [op |-> "open", key |-> "", res |-> Ok(NoVal), compacted |-> FALSE]
     ELSE /\ store' = NoStore
          /\ cursor' = 0
          /\ up' = FALSE
          /\ last' = [op |-> "open", key |-> "", res |-> p, compacted |-> FALSE]
  /\ pc' = [c \in Clients |-> "idle"]
  /\ cpc' = "loop"
  /\ compacted' = FALSE
  /\ pass_res' = NotRun
  /\ UNCHANGED <<files, dir, tmp_store, keys, lock, terminate, live, everSet,
                 appended>>

\* Store::open inside a pass: `dir.expect("map DirEntry error")` panics on an
\* entry that read_dir cannot read.  The compactor thread ends, and the guard
\* dropped while it unwinds poisons the RwLock.
CompactionOpenPanics ==
  /\ UNCHANGED offEngine
  /\ UNCHANGED cursor
  /\ cpc = "open"
  /\ lock' = "poisoned"
  /\ cpc' = "dead"
  /\ UNCHANGED <<files, dir, store, tmp_store, keys, pc, terminate, up, last,
                 live, everSet, appended, compacted,
                 pass_res>>

\* KvStore::set / get / remove: `match self.store.write()`, the Err(_) arm
LockFails(c, op, k) ==
  /\ UNCHANGED offEngine
  /\ UNCHANGED cursor
  /\ up
  /\ pc[c] = "idle"
  /\ lock = "poisoned"
  /\ last' = [op |-> op, key |-> k, res |-> Err("LockError"),
              compacted |-> compacted]
  /\ UNCHANGED <<files, dir, store, tmp_store, keys, lock, pc, cpc, terminate,
                 up, live, everSet, appended, compacted,
                 pass_res>>

Next ==
  \/ \E c \in Clients : AcquireWrite(c)
  \/ \E c \in Clients, k \in Keys, v \in Vals : Set(c, k, v)
  \/ \E c \in Clients, k \in Keys : Get(c, k)
  \/ \E c \in Clients, k \in Keys : Remove(c, k)
  \/ CompactorLoop
  \/ CompactionLock
  \/ CompactionCheckSize
  \/ CompactionOpenTmp
  \/ CompactionCopy
  \/ CompactionRename
  \/ CompactionSwap
  \/ Reopen

(***************************************************************************)
(* SharedQueueThreadPool                                                   *)
(***************************************************************************)
\* the state after SharedQueueThreadPool::new(NWorkers)
PoolInit ==
  /\ queue = <<>>
  /\ qlock = Unlocked
  /\ poisoned = FALSE
  /\ pterm = FALSE
  /\ wpc = [w \in Workers |-> "check"]
  /\ wjob = [w \in Workers |-> NoJob]
  /\ mpc = "running"
  /\ joined = 0
  /\ spawned = 0
  /\ started = <<>>
  /\ late = {}
  /\ outcome = [j \in Jobs |-> "pending"]

WorkerCheck_ignores_terminate(w) ==
  /\ UNCHANGED offPool
  /\ wpc[w] = "check"
  /\ wpc' = [wpc EXCEPT ![w] = "lock"]
  /\ UNCHANGED <<queue, qlock, poisoned, pterm, wjob, mpc, joined, spawned,
                 started, late, outcome>>

\* queue_polling: `if term.load(..) { break; }`
WorkerCheck(w) ==
  /\ UNCHANGED offPool
  /\ wpc[w] = "check"
  /\ wpc' = [wpc EXCEPT ![w] = IF pterm THEN "exited" ELSE "lock"]
  /\ UNCHANGED <<queue, qlock, poisoned, pterm, wjob, mpc, joined, spawned,
                 started, late, outcome>>

\* a worker that looks at the head of the queue and leaves it there
WorkerLock_leaves_head(w) ==
  /\ UNCHANGED offPool
  /\ wpc[w] = "lock"
  /\ qlock = Unlocked
  /\ wpc' = [wpc EXCEPT ![w] = IF poisoned THEN "check" ELSE "sleep"]
  /\ UNCHANGED <<queue, qlock, wjob, started, late>>
  /\ UNCHANGED <<poisoned, pterm, mpc, joined, spawned, outcome>>

\* queue_polling: `match queue.lock()`.  The guard lives to the end of the Ok
\* arm, so it is still held while job() runs.
WorkerLock(w) ==
  /\ UNCHANGED offPool
  /\ wpc[w] = "lock"
  /\ qlock = Unlocked
  /\ IF poisoned
     THEN \* Err(poisoned) => continue
          /\ wpc' = [wpc EXCEPT ![w] = "check"]
          /\ UNCHANGED <<queue, qlock, wjob, started, late>>
     ELSE IF queue # <<>>
     THEN \* pop_front() is Some(job): job() is called under the guard
          /\ queue' = Tail(queue)
          /\ qlock' = w
          /\ wjob' = [wjob EXCEPT ![w] = Head(queue)]
          /\ started' = Append(started, Head(queue))
          /\ late' = IF pterm THEN late \cup {Head(queue)} ELSE late
          /\ wpc' = [wpc EXCEPT ![w] = "run"]
     ELSE \* None: the guard is dropped, then thread::sleep
          /\ wpc' = [wpc EXCEPT ![w] = "sleep"]
          /\ UNCHANGED <<queue, qlock, wjob, started, late>>
  /\ UNCHANGED <<poisoned, pterm, mpc, joined, spawned, outcome>>

\* job() returns; `continue` drops the guard
WorkerJobReturns(w) ==
  /\ UNCHANGED offPool
  /\ wpc[w] = "run"
  /\ outcome' = [outcome EXCEPT ![wjob[w]] = "done"]
  /\ qlock' = Unlocked
  /\ wjob' = [wjob EXCEPT ![w] = NoJob]
  /\ wpc' = [wpc EXCEPT ![w] = "check"]
  /\ UNCHANGED <<queue, poisoned, pterm, mpc, joined, spawned, started, late>>

\* job() panics: nothing catches it, the worker thread unwinds and ends, and
\* the guard dropped during the unwinding poisons the Mutex
WorkerJobPanics(w) ==
  /\ UNCHANGED offPool
  /\ wpc[w] = "run"
  /\ outcome' = [outcome EXCEPT ![wjob[w]] = "panicked"]
  /\ qlock' = Unlocked
  /\ poisoned' = TRUE
  /\ wjob' = [wjob EXCEPT ![w] = NoJob]
  /\ wpc' = [wpc EXCEPT ![w] = "dead"]
  /\ UNCHANGED <<queue, pterm, mpc, joined, spawned, started, late>>

\* job() never returns: the worker stays inside the Ok arm and keeps the guard
WorkerJobHangs(w) ==
  /\ UNCHANGED offPool
  /\ wpc[w] = "run"
  /\ outcome' = [outcome EXCEPT ![wjob[w]] = "hung"]
  /\ wpc' = [wpc EXCEPT ![w] = "hung"]
  /\ UNCHANGED <<queue, qlock, poisoned, pterm, wjob, mpc, joined, spawned,
                 started, late>>

\* thread::sleep(100 ms) ends
WorkerWake(w) ==
  /\ UNCHANGED offPool
  /\ wpc[w] = "sleep"
  /\ wpc' = [wpc EXCEPT ![w] = "check"]
  /\ UNCHANGED <<queue, qlock, poisoned, pterm, wjob, mpc, joined, spawned,
                 started, late, outcome>>

\* a spawn that puts the job at the head of the queue
Spawn_pushes_front ==
  /\ UNCHANGED offPool
  /\ mpc = "running"
  /\ spawned < MaxJobs
  /\ qlock = Unlocked
  /\ IF poisoned
     THEN /\ mpc' = "panicked"
          /\ UNCHANGED <<queue, spawned>>
     ELSE /\ queue' = <<spawned + 1>> \o queue
          /\ spawned' = spawned + 1
          /\ UNCHANGED mpc
  /\ UNCHANGED <<qlock, poisoned, pterm, wpc, wjob, joined, started, late,
                 outcome>>

\* spawn: `self.queue.lock().unwrap()` panics in the caller on a poisoned
\* Mutex; otherwise push_back
Spawn ==
  /\ UNCHANGED offPool
  /\ mpc = "running"
  /\ spawned < MaxJobs
  /\ qlock = Unlocked
  /\ IF poisoned
     THEN /\ mpc' = "panicked"
          /\ UNCHANGED <<queue, spawned>>
     ELSE /\ queue' = Append(queue, spawned + 1)
          /\ spawned' = spawned + 1
          /\ UNCHANGED mpc
  /\ UNCHANGED <<qlock, poisoned, pterm, wpc, wjob, joined, started, late, outcome>>

\* Drop: terminate.store(true), then join the workers in order.  It also runs
\* when the owner unwinds from a panic.
PoolDrop ==
  /\ UNCHANGED offPool
  /\ mpc \in {"running", "panicked"}
  /\ pterm' = TRUE
  /\ mpc' = "joining"
  /\ UNCHANGED <<queue, qlock, poisoned, wpc, wjob, joined, spawned, started, late,
                 outcome>>

PoolJoin ==
  /\ UNCHANGED offPool
  /\ mpc = "joining"
  /\ joined < NWorkers
  /\ wpc[joined + 1] \in {"exited", "dead"}
  /\ joined' = joined + 1
  /\ mpc' = IF joined + 1 = NWorkers THEN "dropped" ELSE "joining"
  /\ UNCHANGED <<queue, qlock, poisoned, pterm, wpc, wjob, spawned, started, late,
                 outcome>>

PoolNext ==
  \/ \E w \in Workers : WorkerCheck(w)
  \/ \E w \in Workers : WorkerLock(w)
  \/ \E w \in Workers : WorkerJobReturns(w)
  \/ \E w \in Workers : WorkerJobPanics(w)
  \/ \E w \in Workers : WorkerJobHangs(w)
  \/ \E w \in Workers : WorkerWake(w)
  \/ Spawn
  \/ PoolDrop
  \/ PoolJoin

(***************************************************************************)
(* Store::open on an arbitrary path                                        *)
(***************************************************************************)
NoCall == [path |-> Absent, file_name |-> "none", res |-> Ok("none")]

\* no open on a foreign path is under way
OpenIdle ==
  /\ path = Absent
  /\ opened = NoCall

\* the path is anything the file system can hold there
OpenInit ==
  /\ path \in {Absent, RegularFile} \cup {Directory(E) : E \in SUBSET EntryNames}
  /\ opened = NoCall

\* Store::open(path, file_name): ensure_path, then open_file creates the file
\* (create_dir_all made the directory), then load_data reads it
OpenPath(file_name) ==
  /\ UNCHANGED offOpen
  /\ LET r == ensure_path(path, file_name) IN
     /\ opened' = [path |-> path, file_name |-> file_name, res |-> r]
     /\ path' = IF IsOk(r) THEN Directory(path.entries \cup {file_name})
                ELSE path

\* between two opens other programs create and delete files in the directory
CreateEntry(n) ==
  /\ UNCHANGED offOpen
  /\ path.kind = "dir"
  /\ n \notin path.entries
  /\ path' = Directory(path.entries \cup {n})
  /\ UNCHANGED opened

DeleteEntry(n) ==
  /\ UNCHANGED offOpen
  /\ path.kind = "dir"
  /\ n \in path.entries
  /\ path' = Directory(path.entries \ {n})
  /\ UNCHANGED opened

\* KvStore::open passes LOG_FILE, check_and_do_compaction COMPACTION_LOG_FILE
OpenNext ==
  \/ \E file_name \in Names : OpenPath(file_name)
  \/ \E n \in EntryNames : CreateEntry(n)
  \/ \E n \in EntryNames : DeleteEntry(n)

(***************************************************************************)
(* kvs-client and kvs-server: one connection                               *)
(***************************************************************************)
\* ReqProto
ReqGet(k) == [op |-> "Get", key |-> k, value |-> NoVal]
ReqSet(k, v) == [op |-> "Set", key |-> k, value |-> v]
ReqRemove(k) == [op |-> "Remove", key |-> k, value |-> NoVal]
ReqProto ==
  {ReqGet(k) : k \in Keys} \cup {ReqRemove(k) : k \in Keys}
    \cup {ReqSet(k, v) : k \in Keys, v \in Vals}
NoReq == [op |-> "none", key |-> "", value |-> NoVal]

\* RespProto; NoResp is a stream closed with nothing written
RespOK(val_opt) == <<"OK", val_opt>>
RespError(msg) == <<"Error", msg>>
NoResp == <<"", "">>

\* no engine call was made
NotCalled == <<"none", "">>

\* what the three methods of KvsEngine can return (a Some(v), None as NoVal)
EngineResults(req) ==
  IF req.op = "Get"
  THEN {Ok(v) : v \in Vals \cup {NoVal}}
         \cup {Err(e) : e \in {"IoErr", "SerdeJsonError", "KeyNotFound",
                               "LockError"}}
  ELSE IF req.op = "Set"
  THEN {Ok(NoVal)} \cup {Err(e) : e \in {"IoErr", "SerdeJsonError", "LockError"}}
  ELSE {Ok(NoVal)}
         \cup {Err(e) : e \in {"KeyNotFound", "IoErr", "SerdeJsonError",
                               "LockError"}}

NoExit == [code |-> -1, out |-> "", err |-> ""]

\* the bytes of one request on the stream: text is "whole" when the complete
\* JSON object arrived and "part" when only a prefix of it did (none of it
\* included); nl tells whether a newline followed before the end of stream
Frame(text, nl) == [text |-> text, nl |-> nl]
Texts == {"whole", "part"}
NoFrame == Frame("none", FALSE)

NetInit ==
  /\ npc = "idle"
  /\ request = NoReq
  /\ raw = NoFrame
  /\ decoded = NotCalled
  /\ engine_res = NotCalled
  /\ response = NoResp
  /\ exit = NoExit

\* send_command: the request and a newline are written to the stream
ClientSend(req) ==
  /\ UNCHANGED offNet
  /\ npc = "idle"
  /\ request' = req
  /\ raw' = Frame("whole", TRUE)
  /\ npc' = "sent"
  /\ UNCHANGED <<decoded, engine_res, response, exit>>

\* a peer other than kvs-client writes all or part of a request, with or
\* without the newline, and shuts down its sending side: read_until returns
\* at the newline or at the end of the stream
PeerSend(req, text, nl) ==
  /\ UNCHANGED offNet
  /\ npc = "idle"
  /\ request' = req
  /\ raw' = Frame(text, nl)
  /\ npc' = "sent"
  /\ UNCHANGED <<decoded, engine_res, response, exit>>

\* deserialize_request: serde_json::from_slice on what read_until collected.
\* A trailing newline is whitespace to from_slice, so a complete object
\* decodes with or without it; a prefix of an object does not decode
deserialize_request(req, bytes) ==
  IF bytes.text = "whole" THEN Ok(req) ELSE Err("SerdeJsonError")

\* deserialize_request: read_until delivers the line and from_slice decodes it
ServerDecode ==
  /\ UNCHANGED offNet
  /\ npc = "sent"
  /\ decoded' = deserialize_request(request, raw)
  /\ npc' = "decoded"
  /\ UNCHANGED <<request, raw, engine_res, response, exit>>

\* deserialize_request: read_until fails, its result is dropped, and
\* from_slice fails on what was read
ServerDecodeFails ==
  /\ UNCHANGED offNet
  /\ npc = "sent"
  /\ decoded' = Err("SerdeJsonError")
  /\ npc' = "decoded"
  /\ UNCHANGED <<request, raw, engine_res, response, exit>>

\* process_request: what is written to the stream for the decoded request
\* req when the engine call returns r (no call is made for an Err request)
process_request(req, r) ==
  IF ~IsOk(req) THEN NoResp
  ELSE IF req[2].op = "Get"
       THEN IF IsOk(r) THEN RespOK(r[2]) ELSE NoResp
  ELSE IF req[2].op = "Set" THEN NoResp
  ELSE IF r = Err("KeyNotFound") THEN RespError("Key not found")
  ELSE NoResp

\* the job of run_with after deserialize_request: process_request, and the
\* stream is closed when it is dropped
ServerProcess(r) ==
  /\ UNCHANGED offNet
  /\ npc = "decoded"
  /\ IF IsOk(decoded) THEN r \in EngineResults(decoded[2]) ELSE r = NotCalled
  /\ engine_res' = r
  /\ response' = process_request(decoded, r)
  /\ npc' = "served"
  /\ UNCHANGED <<request, raw, decoded, exit>>

\* send_command after read_to_end: the exit code of the client and its output
send_command(resp) ==
  IF resp = NoResp THEN [code |-> 0, out |-> "", err |-> ""]
  ELSE IF resp[1] = "OK"
       THEN [code |-> 0,
             out |-> IF resp[2] = NoVal THEN "Key not found" ELSE resp[2],
             err |-> ""]
  ELSE [code |-> 1, out |-> "", err |-> resp[2]]

ClientReceive ==
  /\ UNCHANGED offNet
  /\ npc = "served"
  /\ exit' = send_command(response)
  /\ npc' = "done"
  /\ UNCHANGED <<request, raw, decoded, engine_res, response>>

NetNext ==
  \/ \E req \in ReqProto : ClientSend(req)
  \/ \E req \in ReqProto, text \in Texts, nl \in BOOLEAN :
       PeerSend(req, text, nl)
  \/ ServerDecode
  \/ ServerDecodeFails
  \/ \E r \in EngineResults(ReqGet("a")) \cup EngineResults(ReqRemove("a"))
                \cup {NotCalled} : ServerProcess(r)
  \/ ClientReceive

Init == EngineInit /\ PoolInit /\ OpenIdle /\ NetInit


\* the engine with its clients' handles and its compactor
Spec == Init /\ [][Next]_vars

(***************************************************************************)
(* KvStore::open on a directory that holds a log                           *)
(***************************************************************************)
\* the records a log file can hold, and the files of at most n whole records
LogEntries ==
  {SetEntry(k, v) : k \in Keys, v \in Vals} \cup {RemoveEntry(k) : k \in Keys}
LogFiles(n) == UNION {[1..m -> LogEntries] : m \in 0..n}

\* no engine is open yet, and data.log is any file of whole records
ReplayInit ==
  /\ files \in {[i \in Inodes |-> IF i = "i1" THEN f ELSE <<>>] :
                  f \in LogFiles(MaxLogRecords)}
  /\ dir = [n \in Names |-> IF n = LOG_FILE THEN "i1" ELSE NoInode]
  /\ store = NoStore
  /\ tmp_store = NoStore
  /\ keys = <<>>
  /\ lock = "free"
  /\ pc = [c \in Clients |-> "idle"]
  /\ cpc = "loop"
  /\ terminate = FALSE
  /\ up = FALSE
  /\ last = [op |-> "none", key |-> "", res |-> Ok(NoVal), compacted |-> FALSE]
  /\ live = [k \in Keys |-> NoVal]
  /\ everSet = [k \in Keys |-> {}]
  /\ appended = 0
  /\ compacted = FALSE
  /\ pass_res = NotRun
  /\ cursor = 0

\* KvStore::open: Store::open(path, LOG_FILE) replays the file from offset 0
OpenExisting ==
  /\ UNCHANGED offEngine
  /\ ~up
  /\ LET p == ensure_path(PathOf(dir), LOG_FILE) IN
     /\ IsOk(p)
     /\ store' = open_internal(files, open_file(dir, store, LOG_FILE))
     /\ cursor' = file_len(files[open_file(dir, store, LOG_FILE)])
     /\ up' = TRUE
     /\ last' = [op |-> "open", key |-> "", res |-> Ok(NoVal),
                 compacted |-> FALSE]
  /\ UNCHANGED <<files, dir, tmp_store, keys, lock, pc, cpc, terminate, live,
                 everSet, appended, compacted, pass_res>>

ReplayNext == OpenExisting

InitReplay == ReplayInit /\ PoolInit /\ OpenIdle /\ NetInit

SpecReplay == InitReplay /\ [][ReplayNext]_vars

\* KvStore::set when log_file.write fails (the disk is full, the device
\* fails): the error goes back to the caller
SetFails(c, k, v) ==
  /\ UNCHANGED offEngine
  /\ UNCHANGED cursor
  /\ pc[c] = "locked"
  /\ LET r == set_internal(store, files, k, v, "IoErr") IN
     /\ store' = r.st
     /\ files' = r.fs
     /\ Return(c, "set", k, r.res)
  /\ UNCHANGED <<dir, tmp_store, keys, cpc, terminate, up, live, everSet,
                 appended, compacted, pass_res>>

\* KvStore::remove of a key of the index when log_file.write fails
RemoveFails(c, k) ==
  /\ UNCHANGED offEngine
  /\ UNCHANGED cursor
  /\ pc[c] = "locked"
  /\ k \in DOMAIN store.data
  /\ LET r == remove_internal(store, files, k, "IoErr") IN
     /\ store' = r.st
     /\ files' = r.fs
     /\ Return(c, "remove", k, r.res)
  /\ UNCHANGED <<dir, tmp_store, keys, cpc, terminate, up, live, everSet,
                 appended, compacted, pass_res>>

\* one run of the process (no exit and reopen), with appends that can fail
FaultNext ==
  /\ \/ \E c \in Clients : AcquireWrite(c)
     \/ \E c \in Clients, k \in Keys, v \in Vals : Set(c, k, v)
     \/ \E c \in Clients, k \in Keys, v \in Vals : SetFails(c, k, v)
     \/ \E c \in Clients, k \in Keys : Get(c, k)
     \/ \E c \in Clients, k \in Keys : Remove(c, k)
     \/ CompactorLoop
     \/ CompactionLock
     \/ CompactionCheckSize
     \/ CompactionOpenTmp
     \/ CompactionCopy
     \/ CompactionRename
     \/ CompactionSwap
  /\ appended' <= MaxSideAppends

SpecFault == Init /\ [][FaultNext]_vars

\* the calls of the clients between two wake-ups of the compactor, with
\* sets and removes whose append can fail
RemoveFaultNext ==
  \/ \E c \in Clients : AcquireWrite(c)
  \/ \E c \in Clients, k \in Keys, v \in Vals : Set(c, k, v)
  \/ \E c \in Clients, k \in Keys, v \in Vals : SetFails(c, k, v)
  \/ \E c \in Clients, k \in Keys : Get(c, k)
  \/ \E c \in Clients, k \in Keys : Remove(c, k)
  \/ \E c \in Clients, k \in Keys : RemoveFails(c, k)

SpecRemoveFault == Init /\ [][RemoveFaultNext]_vars

\* the same, with a pass that can panic while it holds the lock
PoisonNext ==
  /\ \/ Next
     \/ CompactionOpenPanics
     \/ \E c \in Clients, op \in {"set", "get", "remove"}, k \in Keys :
          LockFails(c, op, k)
  /\ appended' <= MaxSideAppends

SpecPoison == Init /\ [][PoisonNext]_vars

\* the same, with the clients dropping their handles
LifetimeNext ==
  /\ \/ Next
     \/ \E c \in Clients : DropHandle(c)
  /\ appended' <= MaxSideAppends

SpecLifetime == Init /\ [][LifetimeNext]_vars

\* the thread pool, its owner and its workers
SpecPool == Init /\ [][PoolNext]_vars

\* the thread pool under a fair scheduler: a thread that can take a step
\* takes one, and a job that runs returns, panics or is seen to hang.  The
\* owner is not obliged to spawn or to drop.
PoolFairness ==
  /\ \A w \in Workers :
       /\ WF_vars(WorkerCheck(w))
       /\ WF_vars(WorkerLock(w))
       /\ WF_vars(WorkerWake(w))
       /\ WF_vars(WorkerJobReturns(w) \/ WorkerJobPanics(w)
                    \/ WorkerJobHangs(w))
  /\ WF_vars(PoolJoin)

\* Store::open on every kind of path
InitOpen == EngineInit /\ PoolInit /\ OpenInit /\ NetInit

SpecOpen == InitOpen /\ [][OpenNext]_vars

\* one request of a client and the server's handling of it
SpecServer == Init /\ [][NetNext]_vars

SpecPoolFair == Init /\ [][PoolNext]_vars /\ PoolFairness

(***************************************************************************)
(* Properties of the engine                                                *)
(***************************************************************************)
\* the file the engine's handle is open on
ActiveLog == files[store.log_file]

\* what get(k) returns when it is called in the current state
GetResult(k) == get_internal(store, files, k)

\* a key that was set and whose latest successful mutation is a remove
Removed(k) == live[k] = NoVal /\ everSet[k] # {}

\* C1: a get(k) returns Ok(Some(v)) for the v of the most recent successful
\* set(k, v) that no successful remove(k) followed.
C1_GetReturnsLatestSet ==
  (last.op = "get" /\ live[last.key] # NoVal) => last.res = Ok(live[last.key])

\* C2: a compaction pass that completes changes no get result: for every key,
\* get(k) right after the pass returns what it returned right before.
C2_CompactionKeepsGetResults ==
  [][CompactionSwap => \A k \in Keys : GetResult(k)' = GetResult(k)]_vars

\* C3: for every key of the index, the record that starts at the stored
\* offset in the active log file is a whole Set record with that key.
C3_IndexInvariant ==
  \A k \in DOMAIN store.data :
    LET e == read_entry(ActiveLog, store.data[k]) IN e.tag = "Set" /\ e.key = k

\* C4: no get(k) returns Some(v) for a v that no earlier set(k, v) passed for
\* that key.
C4_GetReturnsOnlySetValues ==
  (last.op = "get" /\ IsOk(last.res) /\ last.res[2] # NoVal)
    => last.res[2] \in everSet[last.key]

\* C5: opening a new engine on the directory yields, for every key, the get
\* result the old engine gave immediately before it was closed.
C5_ReopenKeepsGetResults ==
  [][Reopen => \A k \in Keys : GetResult(k)' = GetResult(k)]_vars

\* C6: after a successful remove(k), a get(k) issued before any later
\* set(k, _) returns Ok(None), also after compaction passes.
C6_GetAfterRemoveIsNone ==
  (last.op = "get" /\ Removed(last.key)) => last.res = Ok(NoVal)

C6_Witness ==
  /\ last.op = "get"
  /\ Removed(last.key)
  /\ last.res = Ok(NoVal)
  /\ last.compacted

\* C7: remove(k) of a key that is not in the index returns KeyNotFound and
\* leaves the log files, the index and current_offset as they were; remove of
\* a key that is in the index returns Ok, and a removed key stays out of the
\* index until it is set again, so a second remove returns KeyNotFound.
C7_RemoveAbsentKey ==
  /\ [](\A k \in Keys : Removed(k) => k \notin DOMAIN store.data)
  /\ [][\A c \in Clients, k \in Keys :
          Remove(c, k) =>
            IF k \in DOMAIN store.data
            THEN last'.res = Ok(NoVal)
            ELSE /\ last'.res = Err("KeyNotFound")
                 /\ UNCHANGED <<files, dir, store>>]_vars

C7_Witness ==
  /\ last.op = "remove"
  /\ last.res = Err("KeyNotFound")
  /\ Removed(last.key)
  /\ ActiveLog # <<>>

\* C8: once the last KvStore handle has been dropped the termination flag is
\* set (and the compactor then leaves its loop).
C8_TerminateOnLastDrop ==
  (\A c \in Clients : pc[c] = "dropped") => terminate

\* the compactor is between the first and the last step of a pass
InPass == cpc \in {"size", "open", "copy", "swap"}

\* the threads that are inside an engine operation
Holders == {c \in Clients : pc[c] = "locked"} \cup (IF InPass THEN {"compactor"} ELSE {})

\* C9: set, get, remove and a whole compaction pass exclude each other: at
\* most one thread is inside an engine operation, it is the thread the lock
\* records, and no client is inside one between the first and the last step
\* of a pass.
C9_MutualExclusion ==
  /\ Cardinality(Holders) <= 1
  /\ \A t \in Holders : lock = t
  /\ InPass => \A c \in Clients : pc[c] # "locked"

C9_Witness ==
  /\ cpc = "copy"
  /\ keys # <<>>
  /\ tmp_store.data # EmptyMap
  /\ \E c \in Clients : pc[c] = "idle"

(***************************************************************************)
(* Properties of the pool                                                  *)
(***************************************************************************)
\* C10: after a job has panicked the pool still has all its workers polling
\* and spawn still succeeds.
C10_PanicContained ==
  (\E j \in Jobs : outcome[j] = "panicked")
    => /\ \A w \in Workers : wpc[w] # "dead"
       /\ mpc # "panicked"

(***************************************************************************)
(* Shutdown of the thread pool                                             *)
(***************************************************************************)
\* a worker is inside a job that never returns
StuckIn(jobs) == \E w \in Workers : wpc[w] = "hung" /\ wjob[w] \in jobs

\* C11 as stated: the drop of the pool returns whenever every job that was
\* already running when the drop began terminates, whatever the queue holds.
C11_DropReturnsAsStated ==
  (mpc = "joining") ~> (mpc = "dropped" \/ StuckIn(Jobs \ late))

\* C11: the drop of the pool sets terminate, joins every worker and returns
\* whenever every job that runs terminates, the ones included that a worker
\* which had passed its terminate check takes from the queue after the drop
\* began; jobs still queued when the workers exit are never started.
C11_DropReturns ==
  (mpc = "joining") ~> (mpc = "dropped" \/ StuckIn(Jobs))

C11_Witness ==
  /\ mpc = "dropped"
  /\ pterm
  /\ \A w \in Workers : wpc[w] \in {"exited", "dead"}
  /\ queue # <<>>
  /\ started # <<>>

(***************************************************************************)
(* Validation of the directory                                             *)
(***************************************************************************)
\* an open was made on a path that held p
OpenedOn(p) == opened.file_name # "none" /\ opened.path = p

\* C12: on an existing directory, open accepts zero entries; accepts exactly
\* one entry iff it is named data.log and otherwise fails with
\* UnexpectedLogFile; fails with UnexpectedFilesInPath (FileMismatchInPath in
\* the code) on two or more entries; and fails with DirPathExpected on a
\* regular file.
C12_DirectoryValidation ==
  /\ OpenedOn(Directory({})) => IsOk(opened.res)
  /\ OpenedOn(Directory({LOG_FILE})) => IsOk(opened.res)
  /\ \A n \in EntryNames \ {LOG_FILE} :
       OpenedOn(Directory({n})) => opened.res = Err("UnexpectedLogFile")
  /\ \A E \in SUBSET EntryNames :
       (Cardinality(E) >= 2 /\ OpenedOn(Directory(E)))
         => opened.res = Err("FileMismatchInPath")
  /\ OpenedOn(RegularFile) => opened.res = Err("DirPathExpected")

C12_Witness ==
  /\ OpenedOn(Directory({LOG_FILE, COMPACTION_LOG_FILE}))
  /\ opened.res = Err("FileMismatchInPath")

\* a directory with the stray file foo.txt among its entries was opened
OpenedWithStray ==
  /\ opened.file_name # "none"
  /\ opened.path.kind = "dir"
  /\ "foo.txt" \in opened.path.entries

\* C13 as stated: opening a directory that holds a stray file foo.txt fails
\* with UnexpectedFilesInPath, also when foo.txt is its only entry.
C13_StrayFileAsStated ==
  OpenedWithStray => opened.res = Err("FileMismatchInPath")

\* C13: opening a directory that holds a stray file foo.txt fails: with
\* UnexpectedLogFile when foo.txt is its only entry, with UnexpectedFilesInPath
\* (FileMismatchInPath in the code) when it has other entries too.
C13_StrayFile ==
  OpenedWithStray =>
    opened.res = IF opened.path.entries = {"foo.txt"}
                 THEN Err("UnexpectedLogFile")
                 ELSE Err("FileMismatchInPath")

C13_Witness ==
  /\ OpenedWithStray
  /\ opened.path.entries = {"foo.txt"}
  /\ opened.res = Err("UnexpectedLogFile")

(***************************************************************************)
(* Properties of the server and the client                                 *)
(***************************************************************************)
\* the server has handled a decoded request of the kind op
Served(op) ==
  npc \in {"served", "done"} /\ IsOk(decoded) /\ decoded[2].op = op

\* the request did not succeed on the server
FailedOnServer == ~IsOk(decoded) \/ ~IsOk(engine_res)

\* C14: for a Remove request the server writes nothing when engine.remove
\* succeeded and writes Error("Key not found") for every other outcome of
\* engine.remove.
C14_RemoveResponse ==
  Served("Remove") =>
    response = IF IsOk(engine_res) THEN NoResp ELSE RespError("Key not found")

\* C15: whenever the request does not succeed on the server (the engine call
\* returns an error or the request cannot be decoded) the client prints an
\* error and exits non-zero; the client sees an empty response only for a
\* request that succeeded.
C15_FailureReported ==
  npc = "done" =>
    /\ FailedOnServer => (exit.code # 0 /\ exit.err # "")
    /\ response = NoResp => ~FailedOnServer

(***************************************************************************)
(* The poisoned lock                                                       *)
(***************************************************************************)
\* C16: once the lock of the engine is poisoned it stays poisoned, every
\* later set, get and remove returns the Lock error, and no step reads or
\* writes the log, the index or current_offset; a compaction pass leaves them
\* alone as well.
C16_PoisonedLock ==
  [][lock = "poisoned" =>
       /\ lock' = "poisoned"
       /\ UNCHANGED <<files, dir, store, tmp_store>>
       /\ last' # last => last'.res = Err("LockError")]_vars

C16_Witness ==
  /\ lock = "poisoned"
  /\ last.op \in {"set", "get", "remove"}
  /\ last.res = Err("LockError")

(***************************************************************************)
(* The write offset, the replay and the output of a pass                   *)
(***************************************************************************)
\* C17: between operations current_offset equals the byte length of the
\* active log file: after replay, after every successful append of a set or
\* a remove, and after every successful compaction pass.
C17_WriteOffset ==
  (up /\ lock = "free") => store.current_offset = file_len(ActiveLog)

\* the position in f of the last record about key k, 0 when there is none
LastRecord(f, k) ==
  LET S == {i \in 1..Len(f) : f[i].key = k} IN
  IF S = {} THEN 0 ELSE CHOOSE i \in S : \A j \in S : j <= i

\* C18: the replay of a file of whole records from offset 0 maps each key
\* whose last record is a Set to the byte offset of that record, holds no key
\* whose last record is a Remove (or that has no record), and leaves
\* current_offset equal to the length of the file.
C18_ReplayCorrect ==
  up =>
    /\ \A k \in Keys :
         LET i == LastRecord(ActiveLog, k) IN
         IF i # 0 /\ ActiveLog[i].tag = "Set"
         THEN k \in DOMAIN store.data
              /\ store.data[k] = offset_of(ActiveLog, i)
         ELSE k \notin DOMAIN store.data
    /\ DOMAIN store.data \subseteq Keys
    /\ store.current_offset = file_len(ActiveLog)

C18_Witness ==
  /\ up
  /\ ActiveLog = <<SetEntry("a", "v1"), SetEntry("a", "v2"), RemoveEntry("b")>>
  /\ DOMAIN store.data = {"a"}
  /\ store.data["a"] = entry_str_len(SetEntry("a", "v1"))
  /\ store.current_offset = file_len(ActiveLog)

\* the bytes of one Set record per key of S with the live value of the key
RECURSIVE LiveSetBytes(_)
LiveSetBytes(S) ==
  IF S = {} THEN 0
  ELSE LET k == CHOOSE x \in S : TRUE IN
       entry_str_len(SetEntry(k, live[k])) + LiveSetBytes(S \ {k})

\* C19: after a successful pass data.log holds exactly one Set record for
\* each key the index held before the pass, with the live value of the key,
\* and no Remove and no superseded Set record; so its size is at most the sum
\* of the lengths of the live Set records.
C19_CompactionOutput ==
  [][CompactionSwap =>
       LET out == files'[store'.log_file]
           before == DOMAIN store.data
       IN /\ Len(out) = Cardinality(before)
          /\ \A i \in 1..Len(out) : out[i].tag = "Set"
          /\ \A k \in before :
               \E i \in 1..Len(out) : out[i] = SetEntry(k, live[k])
          /\ file_len(out) <= LiveSetBytes(before)]_vars

\* an earlier pass that did not complete left data.log.tmp in the directory
StaleTmp == cpc = "open" /\ dir[COMPACTION_LOG_FILE] # NoInode

\* C20: a pass that starts while a stale data.log.tmp exists does not fail and
\* does not append to it: it goes on from an empty temporary file, so that
\* data.log afterwards holds only the records this pass wrote.
C20_StaleTmpOverwritten ==
  [][(StaleTmp /\ CompactionOpenTmp) =>
       /\ cpc' = "copy"
       /\ files'[dir'[COMPACTION_LOG_FILE]] = <<>>
       /\ tmp_store'.current_offset = 0]_vars

(***************************************************************************)
(* Properties of the compactor                                             *)
(***************************************************************************)
\* the pass returns from its copy loop because a read of a value failed
CopyAborts == cpc = "copy" /\ keys # <<>> /\ cpc' = "loop"

\* data.log, its content, and the Store under the lock are left as they are
LogUntouched ==
  /\ dir'[LOG_FILE] = dir[LOG_FILE]
  /\ files'[dir[LOG_FILE]] = files[dir[LOG_FILE]]
  /\ store' = store

\* C21: if the read of a key's value fails during a pass, the pass returns
\* that Codec or Io error, and the content of data.log, the index, the file
\* handle and current_offset are what they were before the pass: no step of
\* the pass up to the failed read changes them.
C21_AbortSideEffectFree ==
  [][/\ (cpc \in {"size", "open", "copy"} /\ cpc' # "swap") => LogUntouched
     /\ CopyAborts => pass_res' \in {Err("SerdeJsonError"), Err("IoErr")}]_vars

\* C22: whenever no pass is in progress (the compactor does not hold the
\* lock) the directory holds data.log and no data.log.tmp, after a pass that
\* succeeded and after a pass that returned an error.
C22_NoTmpOutsidePass ==
  (up /\ lock # "compactor") =>
    (dir[LOG_FILE] # NoInode /\ dir[COMPACTION_LOG_FILE] = NoInode)

\* the pass of this iteration returned an error
PassFailed == pass_res[1] = "Err"

\* C23: a pass that returns an error brings the compactor back to the head
\* of its loop; from there, unless terminate is set, it can always go on, its
\* next step is the sleep of the next interval, and after the sleep it takes
\* the lock as soon as it is free and attempts another pass (as long as the
\* process lives).
C23_CompactorRetries ==
  /\ [][(~PassFailed /\ PassFailed') => cpc' = "loop"]_vars
  /\ [][(cpc = "loop" /\ cpc' # "loop" /\ ~terminate) => cpc' = "sleep"]_vars
  /\ [][(cpc = "sleep" /\ cpc' # "sleep" /\ ~Reopen)
         => (cpc' = "size" /\ lock' = "compactor")]_vars
  /\ [](up /\ cpc = "loop" => ENABLED CompactorLoop)
  /\ [](up /\ cpc = "sleep" /\ lock = "free" => ENABLED CompactionLock)

C23_Witness ==
  /\ up
  /\ ~terminate
  /\ cpc = "size"
  /\ dir[COMPACTION_LOG_FILE] # NoInode

\* C24: a pass goes on to rewrite the log if and only if the size of the log
\* file is strictly greater than 1 MiB; at or below that size the pass returns
\* at once and changes neither the files, the directory, the index nor
\* current_offset.
C24_CompactionTrigger ==
  [][cpc = "size" =>
       IF file_len(ActiveLog) > MAX_FILE_BYTES
       THEN cpc' = "open"
       ELSE cpc' = "loop" /\ UNCHANGED <<files, dir, store>>]_vars

\* the state of the compactor's state machine at each position of the thread
Phase(p) ==
  IF p = "loop" THEN "Idle"
  ELSE IF p = "sleep" THEN "Sleeping"
  ELSE IF p \in {"size", "open", "copy", "swap"} THEN "Compacting"
  ELSE IF p = "exited" THEN "Joined"
  ELSE "Dead"

\* every handle of the engine has been dropped
AllDropped == \A c \in Clients : pc[c] = "dropped"

\* C25: within one process the compactor moves only Idle -> Sleeping ->
\* Compacting -> Idle, or from Idle to Terminating and Joined: every pass comes
\* after a sleep and is followed by the check of the termination flag; and
\* once termination is signalled, which the drop of the engine does, the check
\* of the flag leads to Joined.
C25_CompactorStateMachine ==
  /\ [][(Phase(cpc') # Phase(cpc) /\ ~Reopen) =>
          <<Phase(cpc), Phase(cpc')>> \in
             {<<"Idle", "Sleeping">>, <<"Sleeping", "Compacting">>,
              <<"Compacting", "Idle">>, <<"Idle", "Joined">>}]_vars
  /\ [][(AllDropped /\ cpc = "loop" /\ cpc' # "loop") => cpc' = "exited"]_vars

(***************************************************************************)
(* Failures inside the engine                                              *)
(***************************************************************************)
\* a call of the kind op returns an error on this step
ReturnsError(op) ==
  /\ \E c \in Clients : pc[c] = "locked" /\ pc'[c] = "idle"
  /\ last'.op = op
  /\ ~IsOk(last'.res)

\* C26: if the append of a set fails, set returns the error, and the index
\* (the entry of k included) and current_offset are what they were before
\* the call.
C26_SetFailureAtomic ==
  [][ReturnsError("set") =>
       /\ last'.res = Err("IoErr")
       /\ store'.data = store.data
       /\ store'.current_offset = store.current_offset]_vars

C26_Witness ==
  /\ last.op = "set"
  /\ last.res = Err("IoErr")
  /\ live[last.key] # NoVal
  /\ last.key \in DOMAIN store.data
  /\ ~compacted
  /\ GetResult(last.key) = Ok(live[last.key])

\* C27: if the record at the offset the index holds for k decodes to
\* something that is not a Set record, get(k) fails with the Codec error
\* (SerdeJsonError) and never with KeyNotFound.
C27_CorruptionIsCodecError ==
  \A k \in Keys :
    (up /\ k \in DOMAIN store.data
        /\ read_entry(ActiveLog, store.data[k]).tag # "Set")
      => GetResult(k) = Err("SerdeJsonError")

(***************************************************************************)
(* The queue of the pool                                                   *)
(***************************************************************************)
\* the workers that are inside a job
Running == {w \in Workers : wpc[w] \in {"run", "hung"}}

\* C28: a worker does not hold the Mutex of the queue while it runs a job,
\* so spawn never has to wait for a running job to finish (and two queued
\* jobs can run at the same time on two workers).
C28_JobRunsUnlocked ==
  /\ \A w \in Running : qlock # w
  /\ (mpc = "running" /\ spawned < MaxJobs) => ENABLED Spawn

\* C29: jobs start in the order of their submission: spawn numbers the jobs
\* as it enqueues them, and no job starts before a job spawned earlier.
C29_FifoDispatch ==
  /\ \A i \in 1..Len(started) : started[i] = i
  /\ \A i \in 1..Len(queue) : queue[i] = Len(started) + i

C29_Witness ==
  /\ Len(started) >= 2
  /\ Len(queue) >= 1
  /\ \E w \in Workers : wpc[w] = "run" /\ wjob[w] = 2

\* C30: when the request line cannot be decoded the server job writes an
\* Error response on the connection before it closes it.
C30_DecodeFailureAnswered ==
  (npc \in {"served", "done"} /\ ~IsOk(decoded)) => response[1] = "Error"

\* C31: a Get whose request line reaches the server without a newline before
\* the end of the stream is treated as end of file: engine.get is not called
\* and nothing is written on the connection.
C31_UnterminatedGetDropped ==
  (npc \in {"served", "done"} /\ request.op = "Get" /\ ~raw.nl) =>
    (engine_res = NotCalled /\ response = NoResp)

\* the index a replay of data.log from offset 0 produces
Replayed ==
  load_data([data |-> EmptyMap, log_file |-> dir[LOG_FILE],
             current_offset |-> 0], files[dir[LOG_FILE]]).data

\* the index in memory is the index of the replay
IndexAgrees == store.data = Replayed

\* C32: a set or a remove that returns an error leaves the agreement of the
\* index with the replay of data.log intact and changes no result of get.
C32_FailedMutationKeepsAgreement ==
  [][((ReturnsError("set") \/ ReturnsError("remove")) /\ IndexAgrees) =>
       /\ IndexAgrees'
       /\ \A k \in Keys : GetResult(k)' = GetResult(k)]_vars

(***************************************************************************)
(* Execution of the jobs of the pool                                       *)
(***************************************************************************)
\* the number of times job j was taken from the queue and started
Starts(j) == Cardinality({i \in 1..Len(started) : started[i] = j})

\* the pool was dropped, or a job panicked or never returned
Disturbed ==
  pterm \/ \E j \in Jobs : outcome[j] \in {"panicked", "hung"}

\* C33: every job given to spawn is started at most once and is inside at
\* most one worker, a job that has run was started exactly once, and if the
\* pool is never dropped and no job panics or hangs every spawned job is
\* eventually executed.
C33_JobExecution ==
  /\ [](\A j \in Jobs :
         /\ Starts(j) <= 1
         /\ Cardinality({w \in Workers : wjob[w] = j}) <= 1
         /\ (outcome[j] # "pending" \/ \E w \in Workers : wjob[w] = j)
              => (Starts(j) = 1 /\ j <= spawned))
  /\ \A j \in Jobs :
       (<>Disturbed) \/ ((spawned >= j) ~> (outcome[j] = "done"))

C33_Witness ==
  /\ ~Disturbed
  /\ spawned = MaxJobs
  /\ \A j \in Jobs : outcome[j] = "done" /\ Starts(j) = 1
  /\ \A w \in Workers : wjob[w] = NoJob

(***************************************************************************)
(* The position of the handle                                              *)
(***************************************************************************)
\* a call of the kind op returns on this step
Returns(op) ==
  /\ \E c \in Clients : pc[c] = "locked" /\ pc'[c] = "idle"
  /\ last'.op = op

\* C34: a get, whatever it returns, leaves the index, current_offset and
\* the contents of every file as they were; and the record of a successful
\* set or remove is added after the last record of the log file, wherever an
\* earlier get left the position of the handle.
C34_GetIsPureRead ==
  [][/\ Returns("get") => (store' = store /\ files' = files)
     /\ ((Returns("set") \/ Returns("remove")) /\ IsOk(last'.res)) =>
          LET f == files[store.log_file]
              g == files'[store.log_file]
          IN /\ Len(g) = Len(f) + 1
             /\ SubSeq(g, 1, Len(f)) = f
             /\ g[Len(g)].key = last'.key
             /\ g[Len(g)].tag = IF last'.op = "set" THEN "Set" ELSE "Remove"]_vars

C34_Witness ==
  /\ lock = "free"
  /\ last.op = "get"
  /\ last.res = Ok("v1")
  /\ cursor = read_line_end(ActiveLog, store.data[last.key])
  /\ cursor < file_len(ActiveLog)
====
